---- MODULE Spec2Model ----
(***************************************************************************)
(* A model of ttk91-wasm (src/lib.rs): the event relay, the device queue,  *)
(* the single-step driver and the parse-error converter that sit between   *)
(* a JavaScript host and the ttk91 emulator.                               *)
(*                                                                         *)
(* A Rust panic (an unwrap() on an Err, Vec::remove on an empty Vec, a     *)
(* lock() that cannot be taken) ends the call without a return value and   *)
(* ends the run: the crate is built for wasm32, where a panic is a trap.   *)
(* The model records it as status = "Aborted" with the cause in fault, and *)
(* nothing runs afterwards.                                                *)
(***************************************************************************)
EXTENDS Integers, Sequences, FiniteSets, TLC

VARIABLES
    cells,         \* the Rc<Mutex<_>> allocations: id -> [data, locked]
    relay,         \* WasmEmulator.relay, the stepper's EventRelay handle
    engine_relay,  \* the EventRelay clone given to the engine
    status,        \* "Ready" | "Aborted" (a panic) | "Deadlocked"
    fault,         \* what ended the run
    cur,           \* the EventRelay::event call in progress, or None
    invoked,       \* listener calls made by the event call in progress / last finished
    passes,        \* number of EventRelay::event calls begun
    regLog,        \* history: the add_listener calls that returned, in order
    snapshot,      \* history: cells as they were when the event call in progress began
    program,       \* the compiled program, one instruction per address from 0
    source_map,    \* WasmEmulator.source_map: address -> source line
    pc,            \* emulator.context.pc
    reg,           \* emulator.context.r: the registers the programs write (R1, SP)
    halted,        \* the engine has executed SVC HALT
    memory,        \* emulator.memory, one word per address from 0
    io,            \* emulator.io, the QueueIO
    phase,         \* "idle" | "engine": a step() call is inside emulator.step()
    pending,       \* what the instruction being executed has still to do
    steps,         \* number of step() calls made
    report,        \* the Output returned by the last step() that returned, or None
    prev_report,   \* the Output returned by the step() before that, or None
    acc,           \* history: the output fields of all reports, concatenated
    step_trace,    \* history: the events the engine has sent and the listener calls made
                   \* since the latest step() call began, in order
    read_result,   \* the last read_address call: its address, the number of steps
                   \* made before it and what it returned; or None
    input_text,    \* the source text given to parse, as its UTF-8 bytes
    parse_error,   \* the ParseError the parser returned for it
    js_errors,     \* what into_js_errors returned for the two, or None
    offset_arg,    \* the byte offset given to calculate_position
    position,      \* what calculate_position returned for input_text and offset_arg, or None
    qio,           \* a QueueIO driven on its own, apart from any stepper
    fed,           \* history: the input Vec that QueueIO began with
    qio_log,       \* history: the calls made on it, each with what it returned
    regAt          \* history: the number of step() calls made before each add_listener
                   \* call of regLog, kept where the host's calls are timed

\* the two relay handles, set by create_emulator and never assigned again
handles == <<relay, engine_relay>>

\* the parse-error converter's variables
convVars == <<input_text, parse_error, js_errors, offset_arg, position>>

\* the variables of the QueueIO driven on its own
queueVars == <<qio, fed, qio_log>>

\* what no step of a stepper or of a relay changes: the parts that are also
\* driven on their own, and the times of the host's add_listener calls
unitVars == <<convVars, queueVars, regAt>>

relayVars == <<cells, handles, status, fault, cur, invoked, passes, regLog, snapshot>>

stepperVars == <<program, source_map, pc, reg, halted, memory, io, phase, pending, steps,
                 report, prev_report, acc, read_result, step_trace>>

vars == <<relayVars, stepperVars, unitVars>>

None == [none |-> TRUE]

----------------------------------------------------------------------------
(* Bounds of the model *)

\* add_listener calls accepted in a run of the relay alone
MaxListeners == 3
\* EventRelay::event calls in a run of the relay alone
MaxPasses == 2
\* instructions in a program
MaxProg == 2
\* step() calls in a run of the stepper
MaxSteps == 3
\* add_listener calls in a run of the stepper
MaxHostListeners == 2
\* bytes in a source text given to the converter
MaxText == 2
\* contexts attached to a parse error
MaxContexts == 2
\* bytes in a text given to calculate_position on its own
MaxScanText == 4
\* words in the input Vec of a QueueIO driven on its own
MaxQueue == 2
\* calls made on a QueueIO driven on its own
MaxOps == 3
\* instructions in a program that echoes its input
MaxEcho == 3
\* add_listener calls in a run of the stepper that times them
MaxTimedListeners == 1

----------------------------------------------------------------------------
(* Events (ttk91::event::Event) and the names they are registered under *)

HALT == 11

TypeNames == {"supervisor-call", "memory-change", "register-change", "output"}

\* what a host may pass to add_listener: the wildcard, the four type names,
\* and a string that names no event
Names == TypeNames \cup {"*", "custom"}

\* js_sys::Function values the host registers
Callbacks == {"f", "g"}

SupervisorCall(code) == [tag |-> "SupervisorCall", code |-> code]
MemoryChange(address, data) == [tag |-> "MemoryChange", address |-> address, data |-> data]
RegisterChange(register, data) == [tag |-> "RegisterChange", register |-> register, data |-> data]
Output(device, data) == [tag |-> "Output", device |-> device, data |-> data]

\* the events dispatched when the relay is driven on its own
RelayEvents ==
    { SupervisorCall(HALT), MemoryChange(0, 7), RegisterChange(1, 7), Output(0, 42) }

----------------------------------------------------------------------------
(* EventRelay *)

\* EventRelay::new: two fresh Rc<Mutex<_>> cells, an empty map and an empty Vec
NewCells ==
    (1 :> [data |-> <<>>, locked |-> FALSE]) @@ (2 :> [data |-> <<>>, locked |-> FALSE])

EventRelay_new == [listeners |-> 1, universal |-> 2]

\* (mutant) a clone with cells of its own
EventRelay_clone_deep(self) == [listeners |-> self.listeners + 2, universal |-> self.universal + 2]

\* #[derive(Clone)] on a struct of Rc fields: the clone points at the same cells
EventRelay_clone(self) == [listeners |-> self.listeners, universal |-> self.universal]

\* the cell add_listener locks
add_listener_cell(self, event) ==
    IF event = "*" THEN self.universal ELSE self.listeners

\* (mutant) HashMap::insert(event, vec![listener]): the name's list is replaced
add_listener_data_replaces(data, event, listener) ==
    IF event = "*"
    THEN Append(data, listener)
    ELSE [n \in DOMAIN data \cup {event} |-> IF n = event THEN <<listener>> ELSE data[n]]

\* Vec::push / HashMap::entry(event).or_default().push(listener)
add_listener_data(data, event, listener) ==
    IF event = "*"
    THEN Append(data, listener)
    ELSE IF event \in DOMAIN data
         THEN [data EXCEPT ![event] = Append(@, listener)]
         ELSE data @@ (event :> <<listener>>)

\* (mutant) a lock that lets the holder in again
lock_never_blocks(cell) == FALSE

\* Mutex::lock on a mutex this thread already holds does not return
lock_blocks(cell) == cell.locked

\* EventRelay::add_listener as a step of the whole system. Called while the
\* cell is locked (from a listener running inside event), lock() panics or
\* deadlocks, whichever the platform's Mutex does.
add_listener(self, event, listener) ==
    LET c == add_listener_cell(self, event) IN
    IF lock_blocks(cells[c])
    THEN /\ \E o \in {"Aborted", "Deadlocked"} : status' = o
         /\ fault' = "LockReentry"
         /\ UNCHANGED <<cells, regLog>>
    ELSE /\ cells' = [cells EXCEPT ![c].data = add_listener_data(@, event, listener)]
         /\ regLog' = Append(regLog, <<event, listener>>)
         /\ UNCHANGED <<status, fault>>

\* the match at the top of EventRelay::event
event_name(event) ==
    CASE event.tag = "SupervisorCall" -> "supervisor-call"
      [] event.tag = "MemoryChange" -> "memory-change"
      [] event.tag = "RegisterChange" -> "register-change"
      [] event.tag = "Output" -> "output"

\* the JSON object handed to every listener
event_object(event) ==
    [type |-> event_name(event),
     payload |->
        CASE event.tag = "SupervisorCall" -> [code |-> event.code]
          [] event.tag = "MemoryChange" -> [address |-> event.address, data |-> event.data]
          [] event.tag = "RegisterChange" -> [register |-> event.register, data |-> event.data]
          [] event.tag = "Output" -> [device |-> event.device, data |-> event.data]]

\* listeners.get(name).map(Vec::as_slice).unwrap_or(&[])
listeners_get(map, name) == IF name \in DOMAIN map THEN map[name] ELSE <<>>

\* (mutant) the chain the other way round
event_listeners_universal_first(map, universal, name) ==
    universal \o listeners_get(map, name)

\* .iter().chain(universal.iter())
event_listeners(map, universal, name) == listeners_get(map, name) \o universal

\* the iterator of the event call in progress, over the locked cells themselves
CurListeners ==
    event_listeners(cells[cur.self.listeners].data, cells[cur.self.universal].data,
                    event_name(cur.event))

\* EventRelay::event, up to the for loop: both locks are taken (universal
\* first), and from here to event_end the two guards are alive
event_begin(self, event) ==
    /\ cur = None
    /\ ~lock_blocks(cells[self.universal])
    /\ ~lock_blocks(cells[self.listeners])
    /\ cells' = [cells EXCEPT ![self.universal].locked = TRUE,
                              ![self.listeners].locked = TRUE]
    /\ cur' = [self |-> self, event |-> event, idx |-> 1]
    /\ invoked' = <<>>
    /\ passes' = passes + 1
    /\ snapshot' = cells
    /\ UNCHANGED <<handles, unitVars, status, fault, regLog>>

\* (mutant) the listener's Err is dropped
call1_ignores(result) == "continue"

\* listener.call1(&JsValue::NULL, &object).unwrap()
call1_unwrap(result) == IF result = "Ok" THEN "continue" ELSE "panic"

\* one turn of the for loop: the next listener is called and returns or throws
event_call(result) ==
    /\ cur # None
    /\ cur.idx <= Len(CurListeners)
    /\ invoked' = Append(invoked, [listener |-> CurListeners[cur.idx],
                                    object |-> event_object(cur.event),
                                    result |-> result])
    /\ IF call1_unwrap(result) = "continue"
       THEN /\ cur' = [cur EXCEPT !.idx = @ + 1]
            /\ UNCHANGED <<status, fault>>
       ELSE /\ status' = "Aborted"
            /\ fault' = "ListenerFailure"
            /\ UNCHANGED cur
    /\ UNCHANGED <<cells, handles, unitVars, passes, regLog, snapshot>>

\* one turn of the for loop in which the listener called calls add_listener
\* on the stepper before it returns
event_call_reentrant(name, listener) ==
    /\ cur # None
    /\ cur.idx <= Len(CurListeners)
    /\ invoked' = Append(invoked, [listener |-> CurListeners[cur.idx],
                                    object |-> event_object(cur.event),
                                    result |-> "Reentered"])
    /\ add_listener(relay, name, listener)
    /\ cur' = IF status' = "Ready" THEN [cur EXCEPT !.idx = @ + 1] ELSE cur
    /\ UNCHANGED <<handles, unitVars, passes, snapshot>>

\* the end of EventRelay::event: the loop is over and both guards are dropped
event_end ==
    /\ cur # None
    /\ cur.idx > Len(CurListeners)
    /\ cells' = [cells EXCEPT ![cur.self.universal].locked = FALSE,
                              ![cur.self.listeners].locked = FALSE]
    /\ cur' = None
    /\ UNCHANGED <<handles, unitVars, status, fault, invoked, passes, regLog, snapshot>>

----------------------------------------------------------------------------
(* QueueIO *)

\* QueueIO::new
QueueIO_new == [input |-> <<>>, output |-> <<>>, calls |-> <<>>]

\* (mutant) an empty queue yields a default word
input_default(self, device) ==
    IF self.input = <<>>
    THEN [panic |-> FALSE, value |-> 0, queue |-> self]
    ELSE [panic |-> FALSE, value |-> Head(self.input),
          queue |-> [self EXCEPT !.input = Tail(@)]]

\* (mutant) the word is taken from the back of the queue
input_pops_back(self, device) ==
    IF self.input = <<>>
    THEN [panic |-> TRUE, value |-> 0, queue |-> self]
    ELSE [panic |-> FALSE, value |-> self.input[Len(self.input)],
          queue |-> [self EXCEPT !.input = SubSeq(@, 1, Len(@) - 1)]]

\* QueueIO::input: self.input.remove(0), which panics on an empty Vec and
\* otherwise returns the front word and leaves the rest
input(self, device) ==
    IF self.input = <<>>
    THEN [panic |-> TRUE, value |-> 0, queue |-> self]
    ELSE [panic |-> FALSE, value |-> Head(self.input),
          queue |-> [self EXCEPT !.input = Tail(@)]]

\* (mutant) the log keeps only the last word
output_overwrites(self, device, data) == [self EXCEPT !.output = <<data>>]

\* (mutant) the word is not logged
output_drops(self, device, data) == self

\* QueueIO::output
output(self, device, data) == [self EXCEPT !.output = Append(@, data)]

\* (mutant) the code is pushed onto the output log
supervisor_call_to_output(self, code) == [self EXCEPT !.output = Append(@, code)]

\* QueueIO::supervisor_call
supervisor_call(self, code) == [self EXCEPT !.calls = Append(@, code)]

----------------------------------------------------------------------------
(* The engine: ttk91::emulator::Emulator over the compiled program.  One    *)
(* step fetches the instruction at pc, moves pc past it and carries out the *)
(* instruction's effects in order: calls of the InputOutput back end,       *)
(* writes of memory and registers, and events sent to the listener.         *)

Instr(op, arg) == [op |-> op, arg |-> arg]

\* OUT writes an immediate word and OUTR the word in a register; IN reads
\* into R1
Instructions ==
    { Instr("OUT", 7), Instr("OUT", 42), Instr("IN", 0), Instr("SVC", HALT),
      Instr("SVC", 12), Instr("PUSH", 7) }

Programs == UNION { [1..n -> Instructions] : n \in 0..MaxProg }

\* the machine word of an instruction
Word(i) ==
    CASE i.op = "OUT" -> 400 + i.arg
      [] i.op = "IN" -> 300
      [] i.op = "SVC" -> 700 + i.arg
      [] i.op = "PUSH" -> 500 + i.arg
      [] i.op = "OUTR" -> 450 + i.arg

\* Program::compile and BalloonMemory::new: the code, then one data word
Image(prog) == [a \in 1..(Len(prog) + 1) |-> IF a <= Len(prog) THEN Word(prog[a]) ELSE 0]

\* SourceMap::into_line_based: instruction k of the source is on line k,
\* the data word has no line
LineMap(prog) == [a \in 0..(Len(prog) - 1) |-> a + 1]

\* what an instruction does, in order; top is the address of the data word
Effects(i, top) ==
    CASE i.op = "OUT" ->
            << [k |-> "output", device |-> 0, data |-> i.arg],
               [k |-> "emit", event |-> Output(0, i.arg)] >>
      [] i.op = "IN" ->
            << [k |-> "input", device |-> 1, register |-> 1],
               [k |-> "emit_reg", register |-> 1] >>
      [] i.op = "SVC" ->
            << [k |-> "svc", code |-> i.arg],
               [k |-> "emit", event |-> SupervisorCall(i.arg)] >>
      [] i.op = "OUTR" ->
            << [k |-> "output_reg", device |-> 0, register |-> i.arg],
               [k |-> "emit_out_reg", device |-> 0, register |-> i.arg] >>
      [] i.op = "PUSH" ->
            << [k |-> "store", address |-> top, data |-> i.arg],
               [k |-> "emit", event |-> MemoryChange(top, i.arg)],
               [k |-> "setreg", register |-> 6, data |-> top],
               [k |-> "emit_reg", register |-> 6] >>

\* Emulator::step up to the instruction's first effect: Err on a fetch
\* outside the code
Emulator_fetch(prog, at, isHalted) ==
    IF isHalted
    THEN [ok |-> TRUE, pc |-> at, effects |-> <<>>]
    ELSE IF at >= Len(prog)
         THEN [ok |-> FALSE, pc |-> at, effects |-> <<>>]
         ELSE [ok |-> TRUE, pc |-> at + 1, effects |-> Effects(prog[at + 1], Len(prog))]

\* Emulator::run over TestIo, from address at with out written so far: Ok at
\* SVC HALT, Err on a fetch outside the code; TestIo has no input to give, so
\* a register written out still holds its first value, 0
RECURSIVE Emulator_run(_, _, _)
Emulator_run(prog, at, out) ==
    IF at >= Len(prog)
    THEN [ok |-> FALSE, output |-> out]
    ELSE LET i == prog[at + 1] IN
         CASE i.op = "OUT" -> Emulator_run(prog, at + 1, Append(out, i.arg))
           [] i.op = "SVC" -> IF i.arg = HALT THEN [ok |-> TRUE, output |-> out]
                                               ELSE Emulator_run(prog, at + 1, out)
           [] i.op = "PUSH" -> Emulator_run(prog, at + 1, out)
           [] i.op = "IN" -> [ok |-> FALSE, output |-> out]
           [] i.op = "OUTR" -> Emulator_run(prog, at + 1, Append(out, 0))

\* Memory::get_data
get_data(mem, addr) ==
    IF addr < Len(mem) THEN [ok |-> TRUE, value |-> mem[addr + 1]]
                       ELSE [ok |-> FALSE, value |-> 0]

----------------------------------------------------------------------------
(* WasmEmulator *)

\* (mutant) lines counted from 0
get_source_line_zero_based(map, addr) == IF addr \in DOMAIN map THEN map[addr] - 1 ELSE 0

\* source_map.get_source_span(pc).map(|span| span.start.line).unwrap_or(0)
get_source_line(map, addr) == IF addr \in DOMAIN map THEN map[addr] ELSE 0

\* the Output returned by step
Output_new(queue, line) == [output |-> queue.output, calls |-> queue.calls, line |-> line]

\* (mutant) the address of the instruction just executed
step_line_address_before(at) == at - 1

\* the address step resolves to a line: self.emulator.context.pc as usize,
\* read after self.emulator.step() has returned
step_line_address(at) == at

\* (mutant) the engine's Err is dropped
step_unwrap_ignores(result) == "continue"

\* self.emulator.step().unwrap()
step_unwrap(result) == IF result.ok THEN "continue" ELSE "panic"

\* (mutant) a failed read yields a default word
read_address_result_default(mem, addr) ==
    [ok |-> TRUE, value |-> get_data(mem, addr).value, error |-> "none"]

\* read_address: the Result handed back to the host
read_address_result(mem, addr) ==
    LET r == get_data(mem, addr) IN
    IF r.ok THEN [ok |-> TRUE, value |-> r.value, error |-> "none"]
            ELSE [ok |-> FALSE, value |-> 0, error |-> "memory_error"]

\* execute(asm) for a source text that compiles to prog:
\* emulator.run().unwrap(), then io.into_output()
execute(prog) ==
    LET r == Emulator_run(prog, 0, <<>>) IN
    IF r.ok THEN [panic |-> FALSE, output |-> r.output]
            ELSE [panic |-> TRUE, output |-> <<>>]

Running == status = "Ready"
HostTurn == Running /\ phase = "idle" /\ cur = None

\* WasmEmulator::add_listener, called by the host between steps
WasmEmulator_add_listener(event, listener) ==
    /\ HostTurn
    /\ add_listener(relay, event, listener)
    /\ UNCHANGED <<handles, convVars, queueVars, cur, invoked, passes, snapshot>>
    /\ UNCHANGED stepperVars

\* WasmEmulator::read_address
read_address(addr) ==
    /\ HostTurn
    /\ read_result' = [addr |-> addr, at |-> steps,
                       result |-> read_address_result(memory, addr)]
    /\ UNCHANGED <<relayVars, unitVars>>
    /\ UNCHANGED <<step_trace, program,
                   source_map, pc, reg, halted, memory, io, phase, pending, steps,
                   report, prev_report, acc>>

\* WasmEmulator::step, entered: the engine fetches, and an Err is unwrapped
step_call ==
    /\ HostTurn
    /\ steps < MaxSteps
    /\ steps' = steps + 1
    /\ step_trace' = <<>>
    /\ LET r == Emulator_fetch(program, pc, halted) IN
       IF step_unwrap(r) = "panic"
       THEN /\ status' = "Aborted"
            /\ fault' = "EmulationFault"
            /\ UNCHANGED <<pc, pending, phase>>
       ELSE /\ pc' = r.pc
            /\ pending' = r.effects
            /\ phase' = "engine"
            /\ UNCHANGED <<status, fault>>
    /\ UNCHANGED <<cells, handles, unitVars, cur, invoked, passes, regLog, snapshot>>
    /\ UNCHANGED <<program, source_map, reg, halted, memory, io, report, prev_report, acc,
                   read_result>>

InEngine == Running /\ phase = "engine" /\ cur = None /\ pending # <<>>

\* the engine calls io.output
engine_output ==
    /\ InEngine
    /\ Head(pending).k \in {"output", "output_reg"}
    /\ io' = output(io, Head(pending).device,
                     IF Head(pending).k = "output" THEN Head(pending).data
                                                   ELSE reg[Head(pending).register])
    /\ pending' = Tail(pending)
    /\ UNCHANGED <<relayVars, unitVars>>
    /\ UNCHANGED <<step_trace, program,
                   source_map, pc, reg, halted, memory, phase, steps, report,
                   prev_report, acc, read_result>>

\* the engine calls io.input and puts the value in the register
engine_input ==
    /\ InEngine
    /\ Head(pending).k = "input"
    /\ LET r == input(io, Head(pending).device) IN
       IF r.panic
       THEN /\ status' = "Aborted"
            /\ fault' = "QueueUnderflow"
            /\ UNCHANGED <<io, reg, pending>>
       ELSE /\ io' = r.queue
            /\ reg' = [reg EXCEPT ![Head(pending).register] = r.value]
            /\ pending' = Tail(pending)
            /\ UNCHANGED <<status, fault>>
    /\ UNCHANGED <<cells, handles, unitVars, cur, invoked, passes, regLog, snapshot>>
    /\ UNCHANGED <<step_trace, program,
                   source_map, pc, halted, memory, phase, steps, report,
                   prev_report, acc, read_result>>

\* the engine calls io.supervisor_call; SVC HALT halts it
engine_svc ==
    /\ InEngine
    /\ Head(pending).k = "svc"
    /\ io' = supervisor_call(io, Head(pending).code)
    /\ halted' = (halted \/ Head(pending).code = HALT)
    /\ pending' = Tail(pending)
    /\ UNCHANGED <<relayVars, unitVars>>
    /\ UNCHANGED <<step_trace, program,
                   source_map, pc, reg, memory, phase, steps, report,
                   prev_report, acc, read_result>>

\* the engine writes a memory word
engine_store ==
    /\ InEngine
    /\ Head(pending).k = "store"
    /\ memory' = [memory EXCEPT ![Head(pending).address + 1] = Head(pending).data]
    /\ pending' = Tail(pending)
    /\ UNCHANGED <<relayVars, unitVars>>
    /\ UNCHANGED <<step_trace, program,
                   source_map, pc, reg, halted, io, phase, steps, report,
                   prev_report, acc, read_result>>

\* the engine writes a register
engine_setreg ==
    /\ InEngine
    /\ Head(pending).k = "setreg"
    /\ reg' = [reg EXCEPT ![Head(pending).register] = Head(pending).data]
    /\ pending' = Tail(pending)
    /\ UNCHANGED <<relayVars, unitVars>>
    /\ UNCHANGED <<step_trace, program,
                   source_map, pc, halted, memory, io, phase, steps, report,
                   prev_report, acc, read_result>>

\* the engine sends an event to its listener, the relay clone
engine_emit ==
    /\ InEngine
    /\ Head(pending).k \in {"emit", "emit_reg", "emit_out_reg"}
    /\ event_begin(engine_relay,
                   CASE Head(pending).k = "emit" -> Head(pending).event
                     [] Head(pending).k = "emit_reg" ->
                          RegisterChange(Head(pending).register, reg[Head(pending).register])
                     [] Head(pending).k = "emit_out_reg" ->
                          Output(Head(pending).device, reg[Head(pending).register]))
    /\ pending' = Tail(pending)
    /\ step_trace' = Append(step_trace, [k |-> "event", event |-> cur'.event])
    /\ UNCHANGED <<program, source_map, pc, reg, halted, memory, io, phase, steps, report,
                   prev_report, acc, read_result>>

\* what a listener does when called: return, or throw
CallResults == {"Ok", "Err"}

\* the call just made is added to the history of the step in progress
trace_call ==
    step_trace' = IF phase = "engine"
                  THEN Append(step_trace, [k |-> "call",
                                           listener |-> invoked'[Len(invoked')].listener,
                                           object |-> invoked'[Len(invoked')].object])
                  ELSE step_trace

\* a listener is called and returns or throws
listener_call ==
    /\ Running
    /\ \E result \in CallResults : event_call(result)
    /\ trace_call
    /\ UNCHANGED <<program, source_map, pc, reg, halted, memory, io, phase, pending, steps,
                   report, prev_report, acc, read_result>>

\* a listener is called and calls add_listener before it returns
listener_call_reentrant ==
    /\ Running
    /\ \E name \in Names, listener \in Callbacks : event_call_reentrant(name, listener)
    /\ trace_call
    /\ UNCHANGED <<program, source_map, pc, reg, halted, memory, io, phase, pending, steps,
                   report, prev_report, acc, read_result>>

\* EventRelay::event returns to the engine
listener_done ==
    /\ Running
    /\ event_end
    /\ UNCHANGED stepperVars

\* (mutant) emulator.step() returns once the instruction's reads and writes
\* are done, with its events still to be sent
emulator_step_returned_before_events(effects, call) ==
    /\ call = None
    /\ \A i \in 1..Len(effects) : effects[i].k \in {"emit", "emit_reg", "emit_out_reg"}

\* self.emulator.step() has returned to step: the instruction has nothing
\* left to do and no EventRelay::event call is in progress
emulator_step_returned(effects, call) == effects = <<>> /\ call = None

\* WasmEmulator::step returns its Output
step_return ==
    /\ Running
    /\ phase = "engine"
    /\ emulator_step_returned(pending, cur)
    /\ report' = Output_new(io, get_source_line(source_map, step_line_address(pc)))
    /\ prev_report' = report
    /\ acc' = acc \o report'.output
    /\ phase' = "idle"
    /\ UNCHANGED <<relayVars, unitVars>>
    /\ UNCHANGED <<step_trace, program,
                   source_map, pc, reg, halted, memory, io, pending, steps,
                   read_result>>

----------------------------------------------------------------------------
(* The stepper: create_emulator, then the host and the engine take turns *)

\* create_emulator(input) for a source text that compiles to prog
create_emulator(prog) ==
    /\ program = prog
    /\ source_map = LineMap(prog)
    /\ memory = Image(prog)
    /\ cells = NewCells
    /\ relay = EventRelay_new
    /\ engine_relay = EventRelay_clone(relay)
    /\ io = QueueIO_new
    /\ pc = 0
    /\ reg = (1 :> 0) @@ (6 :> 0)
    /\ halted = FALSE
    /\ status = "Ready"
    /\ fault = "none"
    /\ cur = None
    /\ invoked = <<>>
    /\ passes = 0
    /\ regLog = <<>>
    /\ snapshot = NewCells
    /\ phase = "idle"
    /\ pending = <<>>
    /\ steps = 0
    /\ report = None
    /\ prev_report = None
    /\ acc = <<>>
    /\ read_result = None
    /\ step_trace = <<>>
    /\ regAt = <<>>

\* nothing has been parsed
NoParse ==
    /\ input_text = <<>>
    /\ parse_error = None
    /\ js_errors = None
    /\ offset_arg = 0
    /\ position = None

\* no QueueIO apart from the stepper's
NoQueue == qio = QueueIO_new /\ fed = <<>> /\ qio_log = <<>>

Init == NoParse /\ NoQueue /\ \E prog \in Programs : create_emulator(prog)

\* the names the host registers under while it steps a program
StepperNames == {"*", "output", "register-change"}

host_add_listener ==
    /\ Len(regLog) < MaxHostListeners
    /\ \E event \in StepperNames, listener \in Callbacks :
          WasmEmulator_add_listener(event, listener)
    /\ UNCHANGED regAt

Next ==
    \/ host_add_listener
    \/ step_call
    \/ engine_output
    \/ engine_input
    \/ engine_svc
    \/ engine_store
    \/ engine_setreg
    \/ engine_emit
    \/ listener_call
    \/ listener_call_reentrant
    \/ listener_done
    \/ step_return

Spec == Init /\ [][Next]_vars

----------------------------------------------------------------------------
(* The stepper with memory reads between the steps, and at most one        *)
(* listener                                                                *)

read_add_listener ==
    /\ regLog = <<>>
    /\ \E event \in StepperNames, listener \in Callbacks :
          WasmEmulator_add_listener(event, listener)
    /\ UNCHANGED regAt

host_read_address == \E addr \in 0..(Len(program) + 2) : read_address(addr)

NextRead ==
    \/ read_add_listener
    \/ host_read_address
    \/ step_call
    \/ engine_output
    \/ engine_input
    \/ engine_svc
    \/ engine_store
    \/ engine_setreg
    \/ engine_emit
    \/ listener_call
    \/ listener_call_reentrant
    \/ listener_done
    \/ step_return

SpecRead == Init /\ [][NextRead]_vars

----------------------------------------------------------------------------
(* The stepper with the host's add_listener calls timed: each is recorded   *)
(* with the number of step() calls made before it                          *)

timed_add_listener ==
    /\ Len(regLog) < MaxTimedListeners
    /\ \E event \in StepperNames, listener \in Callbacks :
          WasmEmulator_add_listener(event, listener)
    /\ regAt' = IF Len(regLog') > Len(regLog) THEN Append(regAt, steps) ELSE regAt

NextTimed ==
    \/ timed_add_listener
    \/ step_call
    \/ engine_output
    \/ engine_input
    \/ engine_svc
    \/ engine_store
    \/ engine_setreg
    \/ engine_emit
    \/ listener_call
    \/ listener_call_reentrant
    \/ listener_done
    \/ step_return

SpecTimed == Init /\ [][NextTimed]_vars

----------------------------------------------------------------------------
(* The stepper loaded with a program that reads device input into R1 and    *)
(* writes R1 out                                                            *)

EchoInstructions == { Instr("IN", 0), Instr("OUTR", 1) }

EchoPrograms == UNION { [1..n -> EchoInstructions] : n \in 0..MaxEcho }

InitEcho == NoParse /\ NoQueue /\ \E prog \in EchoPrograms : create_emulator(prog)

NextEcho ==
    \/ host_add_listener
    \/ step_call
    \/ engine_output
    \/ engine_input
    \/ engine_emit
    \/ listener_call
    \/ listener_call_reentrant
    \/ listener_done
    \/ step_return

SpecEcho == InitEcho /\ [][NextEcho]_vars

----------------------------------------------------------------------------
(* The relay on its own: listeners are registered and events are sent to a  *)
(* fresh EventRelay, with no program loaded                                 *)

InitRelay == NoParse /\ NoQueue /\ create_emulator(<<>>)

relay_add_listener ==
    /\ Len(regLog) < MaxListeners
    /\ \E event \in Names, listener \in Callbacks : WasmEmulator_add_listener(event, listener)
    /\ UNCHANGED regAt

relay_event ==
    /\ HostTurn
    /\ passes < MaxPasses
    /\ \E event \in RelayEvents : event_begin(engine_relay, event)
    /\ UNCHANGED stepperVars

NextRelay ==
    \/ relay_add_listener
    \/ relay_event
    \/ listener_call
    \/ listener_call_reentrant
    \/ listener_done

SpecRelay == InitRelay /\ [][NextRelay]_vars

----------------------------------------------------------------------------
(* The parse-error converter.  A source text is its UTF-8 bytes: "a", the   *)
(* line break, and the two bytes C3 A9 of a two-byte character.             *)

Bytes == {"a", "\n", "C3", "A9"}

\* the byte sequences that are a &str
IsStr(s) ==
    \A i \in 1..Len(s) :
        /\ s[i] = "C3" => (i < Len(s) /\ s[i + 1] = "A9")
        /\ s[i] = "A9" => (i > 1 /\ s[i - 1] = "C3")

Texts == { s \in UNION { [1..n -> Bytes] : n \in 0..MaxText } : IsStr(s) }

\* str::is_char_boundary
is_char_boundary(s, index) ==
    \/ index = 0
    \/ index = Len(s)
    \/ index < Len(s) /\ s[index + 1] # "A9"

\* str::split('\n'): the pieces between the line breaks, at least one
RECURSIVE split(_)
split(s) ==
    IF \E i \in 1..Len(s) : s[i] = "\n"
    THEN LET i == CHOOSE i \in 1..Len(s) :
                     s[i] = "\n" /\ \A j \in 1..(i - 1) : s[j] # "\n"
         IN <<SubSeq(s, 1, i - 1)>> \o split(SubSeq(s, i + 1, Len(s)))
    ELSE <<s>>

\* the closure folded over the pieces: |(l,_), line| (l+1, line.len())
fold_step(state, line) == <<state[1] + 1, Len(line)>>

\* Iterator::fold
RECURSIVE fold(_, _)
fold(state, lines) ==
    IF lines = <<>> THEN state ELSE fold(fold_step(state, Head(lines)), Tail(lines))

\* calculate_position: input[..offset] panics past the end of the text and
\* inside a character
calculate_position(text, offset) ==
    IF offset > Len(text) \/ ~is_char_boundary(text, offset)
    THEN [panic |-> TRUE, line |-> 0, column |-> 0]
    ELSE LET r == fold(<<0, 0>>, split(SubSeq(text, 1, offset))) IN
         [panic |-> FALSE, line |-> r[1], column |-> r[2]]

\* a JsParseError from the positions of a span's two ends
JsParseError(level, start, end, message) ==
    [panic |-> start.panic \/ end.panic,
     error |-> [level |-> level,
                start_line |-> start.line, start_column |-> start.column,
                end_line |-> end.line, end_column |-> end.column,
                message |-> message]]

\* (mutant) without a span the Error is placed at the end of the text
primary_error_at_text_end(text, error) ==
    IF error.span = None
    THEN JsParseError("Error", calculate_position(text, Len(text)),
                      calculate_position(text, Len(text)), error.message)
    ELSE JsParseError("Error", calculate_position(text, error.span.start),
                      calculate_position(text, error.span.end), error.message)

\* the Error pushed first: the position of error.span(), or zeros without one
primary_error(text, error) ==
    IF error.span = None
    THEN [panic |-> FALSE,
          error |-> [level |-> "Error", start_line |-> 0, start_column |-> 0,
                     end_line |-> 0, end_column |-> 0, message |-> error.message]]
    ELSE JsParseError("Error", calculate_position(text, error.span.start),
                      calculate_position(text, error.span.end), error.message)

\* (mutant) every context yields a diagnostic
is_any_context(ctx) == TRUE

\* if let Context::Suggestion { span, message } = ctx
is_suggestion(ctx) == ctx.kind = "Suggestion"

\* the for loop over error.get_context()
RECURSIVE context_errors(_, _)
context_errors(text, context) ==
    IF context = <<>> THEN <<>>
    ELSE (IF is_suggestion(Head(context))
          THEN << JsParseError("Suggestion",
                               calculate_position(text, Head(context).span.start),
                               calculate_position(text, Head(context).span.end),
                               Head(context).message) >>
          ELSE <<>>)
         \o context_errors(text, Tail(context))

\* into_js_errors: the Vec returned, or a panic in one of the positions
into_js_errors(text, error) ==
    LET all == <<primary_error(text, error)>> \o context_errors(text, error.context) IN
    [panic |-> \E i \in 1..Len(all) : all[i].panic,
     results |-> [i \in 1..Len(all) |-> all[i].error]]

\* the spans a parser reports in a text: two character boundaries in order
SpansIn(text) ==
    { [start |-> a, end |-> b] : a, b \in 0..Len(text) } \cap
    { sp \in [start : 0..Len(text), end : 0..Len(text)] :
         /\ sp.start <= sp.end
         /\ is_char_boundary(text, sp.start)
         /\ is_char_boundary(text, sp.end) }

\* ttk91::parsing::Context values: suggestions, and a context of another kind
ContextsIn(text) ==
    [kind : {"Suggestion"}, span : SpansIn(text), message : {"s1", "s2"}]
        \cup {[kind |-> "Other", span |-> [start |-> 0, end |-> 0], message |-> "other"]}

\* the ParseError values of a text
ParseErrorsIn(text) ==
    [span : SpansIn(text) \cup {None},
     message : {"e"},
     context : UNION { [1..n -> ContextsIn(text)] : n \in 0..MaxContexts }]

\* parse(input) has failed with one error, not yet converted
InitConvert ==
    /\ create_emulator(<<>>)
    /\ NoQueue
    /\ \E text \in Texts : \E error \in ParseErrorsIn(text) :
          /\ input_text = text
          /\ parse_error = error
    /\ js_errors = None
    /\ offset_arg = 0
    /\ position = None

\* the closure of parse's map_err, for the one error
convert ==
    /\ js_errors = None
    /\ parse_error # None
    /\ js_errors' = into_js_errors(input_text, parse_error)
    /\ UNCHANGED <<relayVars, stepperVars, queueVars, regAt, input_text, parse_error, offset_arg, position>>

NextConvert == convert

SpecConvert == InitConvert /\ [][NextConvert]_vars

----------------------------------------------------------------------------
(* The converter given a ParseError whose spans are any two offsets, up to  *)
(* one byte past the end of the text and inside a character or not          *)

OffsetsAny(text) == 0..(Len(text) + 1)

SpansAny(text) ==
    { sp \in [start : OffsetsAny(text), end : OffsetsAny(text)] : sp.start <= sp.end }

ContextsAny(text) ==
    [kind : {"Suggestion"}, span : SpansAny(text), message : {"s1"}]
        \cup {[kind |-> "Other", span |-> [start |-> 0, end |-> 0], message |-> "other"]}

ParseErrorsAny(text) ==
    [span : SpansAny(text) \cup {None},
     message : {"e"},
     context : UNION { [1..n -> ContextsAny(text)] : n \in 0..MaxContexts }]

InitConvertAny ==
    /\ create_emulator(<<>>)
    /\ NoQueue
    /\ \E text \in Texts : \E error \in ParseErrorsAny(text) :
          /\ input_text = text
          /\ parse_error = error
    /\ js_errors = None
    /\ offset_arg = 0
    /\ position = None

SpecConvertAny == InitConvertAny /\ [][NextConvert]_vars

----------------------------------------------------------------------------
(* calculate_position on its own: a text and a byte offset into it *)

ScanTexts == { s \in UNION { [1..n -> Bytes] : n \in 0..MaxScanText } : IsStr(s) }

InitPosition ==
    /\ create_emulator(<<>>)
    /\ NoQueue
    /\ \E text \in ScanTexts : \E o \in 0..Len(text) :
          /\ input_text = text
          /\ offset_arg = o
    /\ parse_error = None
    /\ js_errors = None
    /\ position = None

\* calculate_position(input, offset) is called
locate ==
    /\ position = None
    /\ position' = calculate_position(input_text, offset_arg)
    /\ UNCHANGED <<relayVars, stepperVars, queueVars, regAt, input_text, parse_error, js_errors, offset_arg>>

NextPosition == locate

SpecPosition == InitPosition /\ [][NextPosition]_vars

----------------------------------------------------------------------------
(* QueueIO on its own: a QueueIO value with words in its input Vec, on which *)
(* the three methods of InputOutput are called in any order                  *)

\* i32 words, u16 device numbers and u16 supervisor call codes
QueueWords == {7, 42}
Devices == {0, 1}
Codes == {HALT, 12}

InitQueue ==
    /\ NoParse
    /\ create_emulator(<<>>)
    /\ \E q \in UNION { [1..n -> QueueWords] : n \in 0..MaxQueue } :
          /\ qio = [input |-> q, output |-> <<>>, calls |-> <<>>]
          /\ fed = q
    /\ qio_log = <<>>

QueueTurn == Running /\ Len(qio_log) < MaxOps

\* qio.input(device)
queue_input ==
    /\ QueueTurn
    /\ \E device \in Devices :
          LET r == input(qio, device) IN
          /\ qio_log' = Append(qio_log, [op |-> "input", device |-> device, arg |-> 0,
                                          panic |-> r.panic, value |-> r.value])
          /\ IF r.panic
             THEN /\ status' = "Aborted"
                  /\ fault' = "QueueUnderflow"
                  /\ UNCHANGED qio
             ELSE /\ qio' = r.queue
                  /\ UNCHANGED <<status, fault>>
    /\ UNCHANGED <<cells, handles, cur, invoked, passes, regLog, snapshot>>
    /\ UNCHANGED <<stepperVars, convVars, fed, regAt>>

\* qio.output(device, data)
queue_output ==
    /\ QueueTurn
    /\ \E device \in Devices, data \in QueueWords :
          /\ qio' = output(qio, device, data)
          /\ qio_log' = Append(qio_log, [op |-> "output", device |-> device, arg |-> data,
                                          panic |-> FALSE, value |-> 0])
    /\ UNCHANGED <<relayVars, stepperVars, convVars, fed, regAt>>

\* qio.supervisor_call(code)
queue_supervisor_call ==
    /\ QueueTurn
    /\ \E code \in Codes :
          /\ qio' = supervisor_call(qio, code)
          /\ qio_log' = Append(qio_log, [op |-> "supervisor_call", device |-> 0,
                                          arg |-> code, panic |-> FALSE, value |-> 0])
    /\ UNCHANGED <<relayVars, stepperVars, convVars, fed, regAt>>

NextQueue ==
    \/ queue_input
    \/ queue_output
    \/ queue_supervisor_call

SpecQueue == InitQueue /\ [][NextQueue]_vars

----------------------------------------------------------------------------
(* Properties *)

TagNames ==
    [SupervisorCall |-> "supervisor-call", MemoryChange |-> "memory-change",
     RegisterChange |-> "register-change", Output |-> "output"]

\* the listeners of the add_listener calls made under name, in call order
RegisteredUnder(log, name) ==
    LET sel == SelectSeq(log, LAMBDA e : e[1] = name) IN
    [i \in 1..Len(sel) |-> sel[i][2]]

ExpectedCalls(log, event) ==
    RegisteredUnder(log, TagNames[event.tag]) \o RegisteredUnder(log, "*")

Called(inv) == [i \in 1..Len(inv) |-> inv[i].listener]

IsPrefix(a, b) == Len(a) <= Len(b) /\ SubSeq(b, 1, Len(a)) = a

\* the for loop of the event call in progress has run to its end
LoopOver == cur # None /\ status = "Ready" /\ cur.idx > Len(CurListeners)

\* C1: an event call invokes the listeners registered under the event's type
\* name, once per registration and in registration order, and then those
\* registered under "*", once per registration and in registration order, and
\* no other listener; while the call runs, the calls made so far are the
\* beginning of that sequence.
C1_DispatchOrder ==
    cur # None =>
        /\ IsPrefix(Called(invoked), ExpectedCalls(regLog, cur.event))
        /\ LoopOver => Called(invoked) = ExpectedCalls(regLog, cur.event)

C1_Witness ==
    /\ LoopOver
    /\ Len(regLog) = 3
    /\ Len(invoked) = 2
    /\ Len(RegisteredUnder(regLog, TagNames[cur.event.tag])) = 1
    /\ Len(RegisteredUnder(regLog, "*")) = 1
    /\ regLog[1][1] = "*"

\* the words written by the instructions before address at, and the codes of
\* the supervisor calls before it
RECURSIVE OutputsBefore(_, _)
OutputsBefore(prog, at) ==
    IF at = 0 THEN <<>>
    ELSE OutputsBefore(prog, at - 1)
            \o (IF prog[at].op = "OUT" THEN <<prog[at].arg>> ELSE <<>>)

RECURSIVE CallsBefore(_, _)
CallsBefore(prog, at) ==
    IF at = 0 THEN <<>>
    ELSE CallsBefore(prog, at - 1)
            \o (IF prog[at].op = "SVC" THEN <<prog[at].arg>> ELSE <<>>)

\* C2: the Output returned by the latest step carries the whole output log and
\* the whole calls log of the QueueIO, which is everything the program has
\* written and called since it was loaded, and each extends that of the
\* report before it.
C2_FullLogs ==
    (HostTurn /\ report # None) =>
        /\ report.output = io.output
        /\ report.calls = io.calls
        /\ report.output = OutputsBefore(program, pc)
        /\ report.calls = CallsBefore(program, pc)
        /\ prev_report # None =>
              /\ IsPrefix(prev_report.output, report.output)
              /\ IsPrefix(prev_report.calls, report.calls)

C2_Witness ==
    /\ HostTurn
    /\ prev_report # None
    /\ prev_report.output = <<7>>
    /\ report.output = <<7, 42>>

\* the program has halted and the step that halted it has returned
SteppedToHalt == HostTurn /\ halted /\ report # None

\* C3 as claimed: once a program that reads no input has been stepped to its
\* halt, the output fields of all the reports, concatenated, are the output
\* execute returns for the same program.
C3_ConcatenatedReports ==
    SteppedToHalt => acc = execute(program).output

\* C3, amended: once a program that reads no input has been stepped to its
\* halt, execute on the same program returns, and the output field of the last
\* report is the output it returns.
C3_LastReport ==
    SteppedToHalt =>
        /\ ~execute(program).panic
        /\ report.output = execute(program).output

C3_Witness ==
    /\ SteppedToHalt
    /\ steps = 2
    /\ report.output = <<42>>

\* C4: the line of the Output a step returns is the line the source map gives
\* for the program counter as the step left it, and it is 0 exactly when the
\* source map has no entry for that address.
C4_SourceLine ==
    (HostTurn /\ report # None) =>
        /\ pc \in DOMAIN source_map => report.line = source_map[pc]
        /\ report.line = 0 <=> pc \notin DOMAIN source_map

C4_Witness ==
    /\ HostTurn
    /\ prev_report # None
    /\ prev_report.line = 2
    /\ report.line = 0

\* the engine answers the next step with an Err
EngineErr == ~Emulator_fetch(program, pc, halted).ok

\* C5: a step on which the engine reports an error does not return an Output
\* and leaves the stepper faulted (status "Aborted", fault "EmulationFault"),
\* and from a stepper that is not Ready no step is taken: the engine does not
\* advance and no Output is returned.
C5_FaultIsFinal ==
    [][ /\ (steps' = steps + 1 /\ EngineErr) =>
              /\ status' = "Aborted"
              /\ fault' = "EmulationFault"
              /\ report' = report
              /\ pc' = pc
              /\ phase' = "idle"
        /\ status = "Ready"
      ]_vars

C5_Witness ==
    /\ status = "Aborted"
    /\ fault = "EmulationFault"
    /\ report # None
    /\ regLog # <<>>

\* C6: a read_address outside the memory returns the memory_error value and
\* nothing else happens: the engine, the QueueIO, the listeners and the
\* stepper's state are as before and the stepper is Ready.
C6_ReadIsRecoverable ==
    [][ (read_result' # read_result /\ read_result'.addr >= Len(memory)) =>
            /\ ~read_result'.result.ok
            /\ read_result'.result.error = "memory_error"
            /\ status = "Ready"
            /\ status' = "Ready"
            /\ UNCHANGED <<cells, handles, unitVars, fault, cur, regLog>>
            /\ UNCHANGED <<step_trace, program,
                   source_map, pc, reg, halted, memory, io, phase,
                           pending, steps, report, prev_report>>
      ]_vars

\* a read failed, and a step made after it has returned its Output
C6_Witness ==
    /\ HostTurn
    /\ read_result # None
    /\ ~read_result.result.ok
    /\ read_result.at < steps
    /\ report # None
    /\ Len(report.output) = 1
    /\ regLog # <<>>

\* C7: when the engine asks an empty QueueIO for input, the call panics: the
\* run is over with fault "QueueUnderflow", the step in progress never
\* returns, no value is handed to the engine and no log changes; and nothing
\* is done after it.
C7_UnderflowIsFatal ==
    [][ /\ (InEngine /\ Head(pending).k = "input" /\ io.input = <<>>) =>
              /\ status' = "Aborted"
              /\ fault' = "QueueUnderflow"
              /\ io' = io
              /\ reg' = reg
              /\ report' = report
              /\ phase' = "engine"
        /\ fault # "QueueUnderflow"
      ]_vars

C7_Witness ==
    /\ status = "Aborted"
    /\ fault = "QueueUnderflow"
    /\ phase = "engine"
    /\ io.output = <<42>>
    /\ report # None

\* a listener called by the event call in progress has thrown
Threw == \E i \in 1..Len(invoked) : invoked[i].result = "Err"

\* C8: when a listener throws, the event call panics: the run is over with
\* fault "ListenerFailure" inside the step that sent the event, which never
\* returns an Output, the listener that threw is the last one called, and
\* nothing is done after it.
C8_ListenerFailurePropagates ==
    [][ /\ Threw' =>
              /\ status' = "Aborted"
              /\ fault' = "ListenerFailure"
              /\ phase' = "engine"
              /\ report' = report
              /\ invoked'[Len(invoked')].result = "Err"
        /\ ~Threw
      ]_vars

\* a listener threw with another listener still to call
C8_Witness ==
    /\ Threw
    /\ cur # None
    /\ Len(invoked) < Len(CurListeners)
    /\ phase = "engine"
    /\ report # None

\* the listeners an event call would invoke, were the cells as in c
ListenersIn(c, self, event) ==
    event_listeners(c[self.listeners].data, c[self.universal].data, TagNames[event.tag])

\* C9: while an event call runs, the registry is what it was when the call
\* began, an add_listener made by a listener does not return, and the
\* listeners called are the beginning of the registry's sequence as it was
\* when the call began, and all of it once the loop is over.
C9_NoRegistrationDuringDispatch ==
    cur # None =>
        /\ cells[cur.self.listeners].data = snapshot[cur.self.listeners].data
        /\ cells[cur.self.universal].data = snapshot[cur.self.universal].data
        /\ IsPrefix(Called(invoked), ListenersIn(snapshot, cur.self, cur.event))
        /\ LoopOver => Called(invoked) = ListenersIn(snapshot, cur.self, cur.event)
        /\ \A i \in 1..Len(invoked) :
              invoked[i].result = "Reentered" => (status # "Ready" /\ i = Len(invoked))

\* a listener, called with another still to call, has called add_listener
C9_Witness ==
    /\ cur # None
    /\ fault = "LockReentry"
    /\ Len(invoked) = 1
    /\ Len(CurListeners) = 2
    /\ invoked[1].result = "Reentered"

\* the line and column of an offset by a scan of the text before it
ScanLine(text, offset) == 1 + Cardinality({ i \in 1..offset : text[i] = "\n" })

ScanColumn(text, offset) ==
    LET breaks == { i \in 1..offset : text[i] = "\n" } IN
    IF breaks = {} THEN offset
    ELSE offset - (CHOOSE i \in breaks : \A j \in breaks : j <= i)

\* diagnostic d has level, message and the scanned positions of span
IsDiagnostic(d, level, text, span, message) ==
    /\ d.level = level
    /\ d.message = message
    /\ d.start_line = ScanLine(text, span.start)
    /\ d.start_column = ScanColumn(text, span.start)
    /\ d.end_line = ScanLine(text, span.end)
    /\ d.end_column = ScanColumn(text, span.end)

\* the suggestions attached to a parse error, in attachment order
SuggestionsOf(error) == SelectSeq(error.context, LAMBDA c : c.kind = "Suggestion")

\* C10: for a parse error with n suggestions, into_js_errors returns 1 + n
\* diagnostics: first the Error with the error's message and, when the error
\* has a span, that span's positions, then one Suggestion per suggestion in
\* attachment order, each with its own span's positions and its message.
C10_OneErrorThenSuggestions ==
    js_errors # None =>
        LET sug == SuggestionsOf(parse_error)
            res == js_errors.results
        IN /\ ~js_errors.panic
           /\ Len(res) = 1 + Len(sug)
           /\ res[1].level = "Error"
           /\ res[1].message = parse_error.message
           /\ parse_error.span # None =>
                 IsDiagnostic(res[1], "Error", input_text, parse_error.span,
                              parse_error.message)
           /\ \A k \in 1..Len(sug) :
                 IsDiagnostic(res[1 + k], "Suggestion", input_text, sug[k].span,
                              sug[k].message)

C10_Witness ==
    /\ js_errors # None
    /\ Len(js_errors.results) = 3
    /\ parse_error.span # None
    /\ js_errors.results[1].end_line = 2
    /\ js_errors.results[2].message = "s2"
    /\ js_errors.results[2].start_line = 2
    /\ js_errors.results[3].message = "s1"
    /\ js_errors.results[3].start_line = 1

\* C11 as claimed: into_js_errors returns a Vec of at least one diagnostic and
\* does not panic, for every text and every ParseError, whatever the offsets
\* of its spans.
C11_ConversionNeverFails ==
    js_errors # None =>
        /\ ~js_errors.panic
        /\ Len(js_errors.results) >= 1

\* C18 as claimed: for every text and every offset from 0 to the length of the
\* text, calculate_position returns the line and column of a scan of the text
\* before the offset: one more than the number of line breaks, at least 1, and
\* the number of bytes since the last line break or the start of the text.
C18_PositionIsScan ==
    position # None =>
        /\ ~position.panic
        /\ position.line >= 1
        /\ position.line = ScanLine(input_text, offset_arg)
        /\ position.column = ScanColumn(input_text, offset_arg)

\* C19: for a ParseError without a span, whatever the text, the Error returned
\* first has start line, start column, end line and end column 0, and every
\* Suggestion after it has the scanned positions of its own span.
C19_NoSpanAllZero ==
    (js_errors # None /\ parse_error.span = None) =>
        LET sug == SuggestionsOf(parse_error)
            res == js_errors.results
        IN /\ ~js_errors.panic
           /\ res[1].level = "Error"
           /\ res[1].start_line = 0
           /\ res[1].start_column = 0
           /\ res[1].end_line = 0
           /\ res[1].end_column = 0
           /\ Len(res) = 1 + Len(sug)
           /\ \A k \in 1..Len(sug) :
                 IsDiagnostic(res[1 + k], "Suggestion", input_text, sug[k].span,
                              sug[k].message)

\* no span, a text of two lines, and a suggestion on the second line
C19_Witness ==
    /\ js_errors # None
    /\ parse_error.span = None
    /\ input_text = <<"\n", "a">>
    /\ Len(js_errors.results) = 2
    /\ js_errors.results[1].end_line = 0
    /\ js_errors.results[2].start_line = 2
    /\ js_errors.results[2].end_column = 1

\* the call that has just been made on the QueueIO
LastOp == qio_log'[Len(qio_log')]

\* C12: a call of output appends its data at the end of the output log and
\* changes neither the calls log nor the input; a call of supervisor_call
\* appends its code at the end of the calls log and changes neither the
\* output log nor the input; both return; a call of input changes neither
\* log; so no call shortens or rewrites a log.
C12_LogsAppendOnly ==
    [][ qio_log' # qio_log =>
          /\ IsPrefix(qio.output, qio'.output)
          /\ IsPrefix(qio.calls, qio'.calls)
          /\ LastOp.op = "output" =>
                /\ qio'.output = qio.output \o <<LastOp.arg>>
                /\ qio'.calls = qio.calls
                /\ qio'.input = qio.input
                /\ status' = "Ready"
          /\ LastOp.op = "supervisor_call" =>
                /\ qio'.calls = qio.calls \o <<LastOp.arg>>
                /\ qio'.output = qio.output
                /\ qio'.input = qio.input
                /\ status' = "Ready"
          /\ LastOp.op = "input" =>
                /\ qio'.output = qio.output
                /\ qio'.calls = qio.calls
      ]_vars

\* words were written and a code logged with input calls in between
C12_Witness ==
    /\ Len(qio_log) = 3
    /\ qio_log[2].op = "input"
    /\ qio.output = <<7>>
    /\ qio.calls = <<12>>
    /\ qio.input = <<42>>

\* the calls of input that returned, in order
Inputs == SelectSeq(qio_log, LAMBDA e : e.op = "input" /\ ~e.panic)

\* C13: the calls of input made on a QueueIO return, in order, the words its
\* input Vec began with, from the front, whatever the device each call names,
\* and what is left in the Vec is the rest of those words in their order; a
\* call on a non-empty Vec does not panic.
C13_InputIsFifo ==
    /\ Len(Inputs) <= Len(fed)
    /\ \A k \in 1..Len(Inputs) : Inputs[k].value = fed[k]
    /\ qio.input = SubSeq(fed, Len(Inputs) + 1, Len(fed))
    /\ \A k \in 1..Len(qio_log) :
          (qio_log[k].op = "input" /\ qio_log[k].panic) =>
              (k = Len(qio_log) /\ Len(Inputs) = Len(fed))

\* two words were taken through two different devices
C13_Witness ==
    /\ fed = <<7, 42>>
    /\ Len(Inputs) = 2
    /\ Inputs[1].device = 1
    /\ Inputs[2].device = 0
    /\ Inputs[2].value = 42
    /\ qio.input = <<>>

\* read a word, write it out, read another
EchoProgram == << Instr("IN", 0), Instr("OUTR", 1), Instr("IN", 0) >>

\* C14 as claimed: the stepper loaded with the echo program and the input
\* word 7 has, after the two steps of the echo, returned an Output whose
\* output is [7], and the QueueIO underflows only on the step after them,
\* when the program reads again.
C14_SeededEcho ==
    program = EchoProgram =>
        /\ (HostTurn /\ steps = 2) => report.output = <<7>>
        /\ fault = "QueueUnderflow" =>
              (steps = 3 /\ report # None /\ report.output = <<7>>)

\* write 42, then halt: the OUT is on line 1 of the source and the SVC on line 2
Out42Program == << Instr("OUT", 42), Instr("SVC", HALT) >>

\* the first step of the program has returned
FirstStepOf(prog) == program = prog /\ HostTurn /\ steps = 1 /\ report # None

\* C15 as claimed: the Output returned by the first step of the program that
\* writes 42 and halts has output [42], no calls, and the line of the OUT
\* instruction.
C15_LineOfOutput ==
    FirstStepOf(Out42Program) =>
        /\ report.output = <<42>>
        /\ report.calls = <<>>
        /\ report.line = 1

\* C15, amended: the Output returned by the first step of the program that
\* writes 42 and halts has output [42], no calls, and the line of the
\* instruction the program counter has moved to, the SVC after the OUT.
C15_LineAfterOutput ==
    FirstStepOf(Out42Program) =>
        /\ report.output = <<42>>
        /\ report.calls = <<>>
        /\ report.line = 2

C15_Witness ==
    /\ FirstStepOf(Out42Program)
    /\ prev_report = None
    /\ pc = 1
    /\ ~halted

\* the universal Vec and the HashMap of the stepper's relay, were the cells as in c
UniversalOf(c) == c[relay.universal].data
MapOf(c) == c[relay.listeners].data

\* C16: an add_listener call under "*" appends the listener at the end of the
\* universal Vec and leaves the HashMap as it was; a call under another name
\* appends the listener at the end of that name's Vec, which is created when
\* the name has none, and leaves the universal Vec and every other name's Vec
\* as they were; no other step changes either; so each Vec holds the
\* listeners registered under its key, once per registration and in
\* registration order.
C16_RegistrationFrame ==
    [][ IF regLog' # regLog
        THEN LET ev == regLog'[Len(regLog')][1]
                 cb == regLog'[Len(regLog')][2]
             IN /\ IF ev = "*"
                   THEN /\ UniversalOf(cells') = UniversalOf(cells) \o <<cb>>
                        /\ MapOf(cells') = MapOf(cells)
                   ELSE /\ UniversalOf(cells') = UniversalOf(cells)
                        /\ DOMAIN MapOf(cells') = DOMAIN MapOf(cells) \cup {ev}
                        /\ MapOf(cells')[ev] = listeners_get(MapOf(cells), ev) \o <<cb>>
                        /\ \A n \in DOMAIN MapOf(cells) \ {ev} :
                              MapOf(cells')[n] = MapOf(cells)[n]
                /\ UniversalOf(cells') = RegisteredUnder(regLog', "*")
                /\ \A n \in Names \ {"*"} :
                      listeners_get(MapOf(cells'), n) = RegisteredUnder(regLog', n)
        ELSE /\ UniversalOf(cells') = UniversalOf(cells)
             /\ MapOf(cells') = MapOf(cells)
      ]_vars

\* a listener registered twice under a name has been called twice for an
\* event of that name, before the universal listener
C16_Witness ==
    /\ LoopOver
    /\ listeners_get(MapOf(cells), "output") = <<"f", "f">>
    /\ UniversalOf(cells) = <<"g">>
    /\ Called(invoked) = <<"f", "f", "g">>

\* the place of the latest event in a history of a step, or 0
LastEventAt(trace) ==
    LET at == { i \in 1..Len(trace) : trace[i].k = "event" } IN
    IF at = {} THEN 0 ELSE CHOOSE i \in at : \A j \in at : j <= i

\* in a history of a step, every listener registered in log for the latest
\* event has been called
AllCalled(trace, log) ==
    LastEventAt(trace) # 0 =>
        Len(trace) - LastEventAt(trace)
            = Len(ExpectedCalls(log, trace[LastEventAt(trace)].event))

\* the entry just added to the history of the step in progress
LastEntry == step_trace'[Len(step_trace')]

\* C17: inside a step, the engine sends an event only when every listener
\* registered for the event before it has been called, and each listener call
\* is the call of the next listener registered for the latest event sent,
\* with that event's object; so every listener sees the events in the order
\* the engine sent them. When step returns its Output the instruction has
\* nothing left to do, no event call is in progress and every listener of
\* every event sent in the step has been called.
C17_EventsInOrder ==
    [][ /\ (step_trace' # step_trace /\ step_trace' # <<>>) =>
              /\ step_trace' = Append(step_trace, LastEntry)
              /\ LastEntry.k = "event" => AllCalled(step_trace, regLog)
              /\ LastEntry.k = "call" =>
                    LET at == LastEventAt(step_trace)
                        e == step_trace[at].event
                    IN /\ at # 0
                       /\ Len(step_trace) - at < Len(ExpectedCalls(regLog, e))
                       /\ LastEntry.listener
                             = ExpectedCalls(regLog, e)[Len(step_trace) - at + 1]
                       /\ LastEntry.object.type = TagNames[e.tag]
                       /\ LastEntry.object.payload = event_object(e).payload
        /\ (phase = "engine" /\ phase' = "idle") =>
              /\ pending = <<>>
              /\ cur = None
              /\ AllCalled(step_trace', regLog')
      ]_vars

\* the events in a history of a step, in order
EventsIn(trace) ==
    LET sel == SelectSeq(trace, LAMBDA e : e.k = "event") IN
    [i \in 1..Len(sel) |-> sel[i].event]

\* the step of a PUSH has returned: two events, one listener called for the
\* first and two for the second, the one registered under its name first
C17_Witness ==
    /\ HostTurn
    /\ Len(EventsIn(step_trace)) = 2
    /\ Len(step_trace) = 5
    /\ step_trace[2].k = "call"
    /\ step_trace[2].object.type = "memory-change"
    /\ step_trace[3].k = "event"
    /\ step_trace[4].object.type = "register-change"
    /\ step_trace[4].listener = "g"
    /\ step_trace[5].listener = "f"

\* C20: the EventRelay the engine sends its events to has the Rc cells of the
\* one the stepper keeps; so at every moment the listeners it would call for
\* an event are the add_listener calls made on the stepper so far, whenever
\* they were made, and an event call made in a step calls all of them that
\* match the event.
C20_SharedRegistry ==
    /\ engine_relay.listeners = relay.listeners
    /\ engine_relay.universal = relay.universal
    /\ \A e \in RelayEvents :
          event_listeners(cells[engine_relay.listeners].data,
                          cells[engine_relay.universal].data, TagNames[e.tag])
              = ExpectedCalls(regLog, e)
    /\ cur # None =>
          /\ cur.self = engine_relay
          /\ LoopOver => Called(invoked) = ExpectedCalls(regLog, cur.event)

\* a listener registered between the first step and the second has been
\* called for an event of the second
C20_Witness ==
    /\ LoopOver
    /\ steps = 2
    /\ regAt = <<1>>
    /\ Len(regLog) = 1
    /\ Called(invoked) = <<regLog[1][2]>>

====
